---- MODULE Spec2Model ----
(***************************************************************************)
(* Model of the command interpreter of LOCALMCPCalc-Weather (client.py):   *)
(* the read-line loop of run(), the weather intercept, the assisted        *)
(* resolver ask_qwen_for_tool() and the keyword resolver                   *)
(* parse_natural_language(), against catalogs shaped like the tools that   *)
(* server.py registers.                                                    *)
(*                                                                         *)
(* Text is a sequence of one-character strings, so that lower(), strip(),  *)
(* split(), the substring test `in` and the two regular expressions are    *)
(* computed character by character as Python computes them.                *)
(***************************************************************************)
EXTENDS Integers, Sequences, FiniteSets, TLC

VARIABLES
    tool_map,    \* the catalog built at session start (client.py:178)
    pc,          \* where run() stands: "input", "awaiting", "fallback", "check", "turn_end", "done", "crashed"
    user_input,  \* the stripped line read by input() (client.py:189)
    tool_name,   \* run()'s local tool_name
    args,        \* run()'s local args
    steps,       \* the strategies consulted in this turn, in order, each with its input and outcome
    posts,       \* the number of POSTs to the collaborator issued in this turn
    console,     \* the kinds of lines printed in this turn
    called,      \* the (name, args) handed to session.call_tool in this turn, if any
    reply,       \* what the POST of this turn came back with
    found_tool,  \* parse_natural_language's local found_tool when it last returned (client.py:39)
    raised       \* the exception that ended run(), "" while none did

vars == <<tool_map, pc, user_input, tool_name, args, steps, posts, console, called, reply,
          found_tool, raised>>

---------------------------------------------------------------------------
(* Bounds of the model *)

\* the most whitespace-separated tokens in one line of input
MaxTokens == 3

---------------------------------------------------------------------------
(* Characters and the string primitives the code uses *)

Min(S) == CHOOSE x \in S : \A y \in S : x <= y
Max(S) == CHOOSE x \in S : \A y \in S : x >= y

SP == " "

IsSpace(c) == c = SP

Digits == {"0", "1", "2", "3", "4", "5", "6", "7", "8", "9"}

IsDigit(c) == c \in Digits

DigitVal(c) ==
    CASE c = "0" -> 0 [] c = "1" -> 1 [] c = "2" -> 2 [] c = "3" -> 3 [] c = "4" -> 4
      [] c = "5" -> 5 [] c = "6" -> 6 [] c = "7" -> 7 [] c = "8" -> 8 [] c = "9" -> 9

LowerLetters == {"a", "b", "c", "d", "e", "f", "g", "h", "i", "j", "k", "l", "m",
                 "n", "o", "p", "q", "r", "s", "t", "u", "v", "w", "x", "y", "z"}

UpperToLower ==
    [c \in {"A", "B", "C", "D", "E", "F", "G", "H", "I", "J", "K", "L", "M",
            "N", "O", "P", "Q", "R", "S", "T", "U", "V", "W", "X", "Y", "Z"} |->
        CASE c = "A" -> "a" [] c = "B" -> "b" [] c = "C" -> "c" [] c = "D" -> "d"
          [] c = "E" -> "e" [] c = "F" -> "f" [] c = "G" -> "g" [] c = "H" -> "h"
          [] c = "I" -> "i" [] c = "J" -> "j" [] c = "K" -> "k" [] c = "L" -> "l"
          [] c = "M" -> "m" [] c = "N" -> "n" [] c = "O" -> "o" [] c = "P" -> "p"
          [] c = "Q" -> "q" [] c = "R" -> "r" [] c = "S" -> "s" [] c = "T" -> "t"
          [] c = "U" -> "u" [] c = "V" -> "v" [] c = "W" -> "w" [] c = "X" -> "x"
          [] c = "Y" -> "y" [] c = "Z" -> "z"]

LowerChar(c) == IF c \in DOMAIN UpperToLower THEN UpperToLower[c] ELSE c

\* str.lower()
Lower(s) == [i \in 1..Len(s) |-> LowerChar(s[i])]

\* the last index up to i (0 if none) whose character is not whitespace
RECURSIVE SkipSpacesBack(_, _)
SkipSpacesBack(s, i) == IF i < 1 \/ ~IsSpace(s[i]) THEN i ELSE SkipSpacesBack(s, i - 1)

\* the first index from i on (Len(s) + 1 if none) whose character is not whitespace
RECURSIVE SkipSpaces(_, _)
SkipSpaces(s, i) == IF i > Len(s) \/ ~IsSpace(s[i]) THEN i ELSE SkipSpaces(s, i + 1)

\* str.strip(): leading and trailing whitespace removed
Strip(s) == SubSeq(s, SkipSpaces(s, 1), SkipSpacesBack(s, Len(s)))

\* p occurs in s starting at index i
OccursAt(p, s, i) ==
    /\ i >= 1
    /\ i + Len(p) - 1 <= Len(s)
    /\ \A k \in 1..Len(p) : s[i + k - 1] = p[k]

\* Python's `p in s` for strings
Contains(p, s) == \E i \in 1..(Len(s) - Len(p) + 1) : OccursAt(p, s, i)

\* the first index from i on (Len(s) + 1 if none) whose character is whitespace
RECURSIVE SkipWord(_, _)
SkipWord(s, i) == IF i > Len(s) \/ IsSpace(s[i]) THEN i ELSE SkipWord(s, i + 1)

\* the first index from i on (Len(s) + 1 if none) whose character is not a digit: \d*
RECURSIVE SkipDigits(_, _)
SkipDigits(s, i) == IF i > Len(s) \/ ~IsDigit(s[i]) THEN i ELSE SkipDigits(s, i + 1)

\* str.split(): the whitespace-delimited tokens (none for empty or blank text)
RECURSIVE Split(_)
Split(s) ==
    LET t == Strip(s)
    IN  IF t = <<>> THEN <<>>
        ELSE LET e == SkipWord(t, 1)
             IN  <<SubSeq(t, 1, e - 1)>> \o Split(SubSeq(t, e, Len(t)))

---------------------------------------------------------------------------
(* Numerals: re.findall(r"[-+]?\d*\.?\d+", text), float() and int(float()) *)

\* The end (exclusive) of the regex's match starting at index i, 0 if it does not
\* match there.  The sign is taken when present; \d* takes every digit; "." is
\* taken only when a digit follows it; otherwise \d* gives back its last digit to
\* \d+, and with no digit at all the match fails (also without the sign).
NumeralEnd(s, i) ==
    LET p == IF s[i] \in {"+", "-"} THEN i + 1 ELSE i
        d == SkipDigits(s, p)
    IN  IF d <= Len(s) /\ s[d] = "." /\ SkipDigits(s, d + 1) > d + 1
        THEN SkipDigits(s, d + 1)
        ELSE IF d > p THEN d ELSE 0

\* the non-overlapping matches from index i on, left to right
RECURSIVE FindNumeralsFrom(_, _)
FindNumeralsFrom(s, i) ==
    IF i > Len(s) THEN <<>>
    ELSE LET e == NumeralEnd(s, i)
         IN  IF e = 0 THEN FindNumeralsFrom(s, i + 1)
             ELSE <<SubSeq(s, i, e - 1)>> \o FindNumeralsFrom(s, e)

\* numbers = re.findall(...)
FindNumerals(s) == FindNumeralsFrom(s, 1)

RECURSIVE DigitsValue(_)
DigitsValue(ds) ==
    IF ds = <<>> THEN 0 ELSE 10 * DigitsValue(SubSeq(ds, 1, Len(ds) - 1)) + DigitVal(ds[Len(ds)])

RECURSIVE Pow10(_)
Pow10(n) == IF n = 0 THEN 1 ELSE 10 * Pow10(n - 1)

\* float(val) of a matched numeral, kept exactly: sign * mant / 10^scale
FloatOf(val) ==
    LET signed == val[1] \in {"+", "-"}
        body   == IF signed THEN Tail(val) ELSE val
        dots   == {i \in 1..Len(body) : body[i] = "."}
        ip     == IF dots = {} THEN body ELSE SubSeq(body, 1, Min(dots) - 1)
        fp     == IF dots = {} THEN <<>> ELSE SubSeq(body, Min(dots) + 1, Len(body))
    IN  [sign  |-> IF val[1] = "-" THEN -1 ELSE 1,
         mant  |-> DigitsValue(ip \o fp),
         scale |-> Len(fp)]

\* int() as a rounding down instead (not the code's)
IntOfFloatFloor(f) == (f.sign * f.mant) \div Pow10(f.scale)

\* int(f) of a float: truncation toward zero
IntOfFloat(f) == f.sign * (f.mant \div Pow10(f.scale))

---------------------------------------------------------------------------
(* Argument values.  Every value is a record of one shape, so that values  *)
(* of different Python types can be compared.                              *)

IntValue(n) == [type |-> "int", sign |-> IF n < 0 THEN -1 ELSE 1,
                mant |-> IF n < 0 THEN -n ELSE n, scale |-> 0, text |-> <<>>]

FloatValue(f) == [type |-> "float", sign |-> f.sign, mant |-> f.mant, scale |-> f.scale, text |-> <<>>]

StrValue(s) == [type |-> "str", sign |-> 1, mant |-> 0, scale |-> 0, text |-> s]

\* args is None, a dict (a function from keys to values) or some other JSON value
NoneArgs == [kind |-> "none", map |-> <<>>]

DictArgs(m) == [kind |-> "dict", map |-> m]

ListArgs == [kind |-> "list", map |-> <<>>]

EmptyDict == DictArgs(<<>>)

\* tool_name is None: a name no text can spell
NoneName == <<"None">>

---------------------------------------------------------------------------
(* Tool names, spelled as text *)

N_add == <<"a", "d", "d">>

N_subtract == <<"s", "u", "b", "t", "r", "a", "c", "t">>

N_multiply == <<"m", "u", "l", "t", "i", "p", "l", "y">>

N_divide == <<"d", "i", "v", "i", "d", "e">>

N_power == <<"p", "o", "w", "e", "r">>

N_sqrt == <<"s", "q", "r", "t">>

N_cosine == <<"c", "o", "s", "i", "n", "e">>

N_sine == <<"s", "i", "n", "e">>

N_tangent == <<"t", "a", "n", "g", "e", "n", "t">>

N_acos == <<"a", "c", "o", "s">>

N_asin == <<"a", "s", "i", "n">>

N_get_recent_calculations == <<"g", "e", "t", "_", "r", "e", "c", "e", "n", "t", "_", "c", "a", "l", "c", "u", "l", "a", "t", "i", "o", "n", "s">>

N_ollama_chat == <<"o", "l", "l", "a", "m", "a", "_", "c", "h", "a", "t">>

N_get_weather_forecast == <<"g", "e", "t", "_", "w", "e", "a", "t", "h", "e", "r", "_", "f", "o", "r", "e", "c", "a", "s", "t">>

N_weather == <<"w", "e", "a", "t", "h", "e", "r">>

---------------------------------------------------------------------------
(* The keyword resolver: parse_natural_language(user_input, tool_map) *)

\* keywords, in the order of the dict literal (dicts keep insertion order)
keywords == <<
    [phrase |-> <<"a", "d", "d">>, tool |-> N_add],
    [phrase |-> <<"p", "l", "u", "s">>, tool |-> N_add],
    [phrase |-> <<"s", "u", "b", "t", "r", "a", "c", "t">>, tool |-> N_subtract],
    [phrase |-> <<"m", "i", "n", "u", "s">>, tool |-> N_subtract],
    [phrase |-> <<"m", "u", "l", "t", "i", "p", "l", "y">>, tool |-> N_multiply],
    [phrase |-> <<"t", "i", "m", "e", "s">>, tool |-> N_multiply],
    [phrase |-> <<"d", "i", "v", "i", "d", "e">>, tool |-> N_divide],
    [phrase |-> <<"o", "v", "e", "r">>, tool |-> N_divide],
    [phrase |-> <<"p", "o", "w", "e", "r">>, tool |-> N_power],
    [phrase |-> <<"t", "o", " ", "t", "h", "e", " ", "p", "o", "w", "e", "r", " ", "o", "f">>, tool |-> N_power],
    [phrase |-> <<"s", "q", "r", "t">>, tool |-> N_sqrt],
    [phrase |-> <<"s", "q", "u", "a", "r", "e", " ", "r", "o", "o", "t">>, tool |-> N_sqrt],
    [phrase |-> <<"c", "o", "s", "i", "n", "e">>, tool |-> N_cosine],
    [phrase |-> <<"c", "o", "s">>, tool |-> N_cosine],
    [phrase |-> <<"s", "i", "n", "e">>, tool |-> N_sine],
    [phrase |-> <<"s", "i", "n">>, tool |-> N_sine],
    [phrase |-> <<"t", "a", "n", "g", "e", "n", "t">>, tool |-> N_tangent],
    [phrase |-> <<"t", "a", "n">>, tool |-> N_tangent],
    [phrase |-> <<"a", "c", "o", "s">>, tool |-> N_acos],
    [phrase |-> <<"a", "s", "i", "n">>, tool |-> N_asin],
    [phrase |-> <<"r", "e", "c", "e", "n", "t">>, tool |-> N_get_recent_calculations],
    [phrase |-> <<"h", "i", "s", "t", "o", "r", "y">>, tool |-> N_get_recent_calculations],
    [phrase |-> <<"l", "o", "g">>, tool |-> N_get_recent_calculations]
>>


\* the first index at which p occurs in s
FirstOccurrence(p, s) == Min({i \in 1..Len(s) : OccursAt(p, s, i)})

\* a leftmost-in-the-text policy instead (not the code's): the entry whose phrase
\* occurs first in the text
LeftmostKeywordMatch(text, tm) ==
    LET hits == {i \in 1..Len(keywords) :
                    Contains(keywords[i].phrase, text) /\ keywords[i].tool \in DOMAIN tm}
    IN  IF hits = {} THEN 0
        ELSE Min({i \in hits : \A j \in hits :
                    FirstOccurrence(keywords[i].phrase, text) <= FirstOccurrence(keywords[j].phrase, text)})

\* the index of the first entry whose phrase occurs in text and whose tool is in the
\* catalog, 0 if there is none (the for loop with its break)
FirstKeywordMatch(text, tm) ==
    LET hits == {i \in 1..Len(keywords) :
                    Contains(keywords[i].phrase, text) /\ keywords[i].tool \in DOMAIN tm}
    IN  IF hits = {} THEN 0 ELSE Min(hits)

\* found_tool after the keyword loop and the first-word fallback; text.split()[0]
\* raises IndexError when the text holds no token
FoundTool(input, tm) ==
    LET text == Lower(input)
        k    == FirstKeywordMatch(text, tm)
    IN  IF k # 0 THEN [raised |-> "", tool |-> keywords[k].tool]
        ELSE IF SkipSpaces(text, 1) > Len(text) THEN [raised |-> "IndexError", tool |-> NoneName]
        ELSE LET first_word == Split(text)[1]
             IN  [raised |-> "",
                  tool   |-> IF first_word \in DOMAIN tm THEN first_word ELSE NoneName]

\* the value bound to a parameter of the declared type from the matched numeral
Coerce(expected_type, val) ==
    IF expected_type = "integer" THEN IntValue(IntOfFloat(FloatOf(val)))
    ELSE IF expected_type = "number" THEN FloatValue(FloatOf(val))
    ELSE StrValue(val)

\* args after the loop over enumerate(required): a later duplicate key overwrites
BindArgs(props, required, numbers) ==
    [key \in {required[i] : i \in 1..Len(required)} |->
        LET i == Max({j \in 1..Len(required) : required[j] = key})
        IN  Coerce(props[key], numbers[i])]

\* an off-by-one comparison instead (not the code's)
TooFewNumbersOffByOne(numbers, required) == Len(numbers) <= Len(required)

\* len(numbers) < len(required)
TooFewNumbers(numbers, required) == Len(numbers) < Len(required)

\* parse_natural_language: what it returns, or the exception it raises
ParseNaturalLanguage(input, tm) ==
    LET found == FoundTool(input, tm)
    IN  IF found.raised # "" THEN [raised |-> found.raised, found |-> NoneName, tool |-> NoneName, args |-> NoneArgs]
        ELSE IF found.tool = NoneName THEN [raised |-> "", found |-> found.tool, tool |-> NoneName, args |-> NoneArgs]
        ELSE LET props    == tm[found.tool].properties
                 required == tm[found.tool].required
                 numbers  == FindNumerals(Lower(input))
             IN  IF required = <<>>
                 THEN [raised |-> "", found |-> found.tool, tool |-> found.tool, args |-> EmptyDict]
                 ELSE IF TooFewNumbers(numbers, required)
                 THEN [raised |-> "", found |-> found.tool, tool |-> NoneName, args |-> NoneArgs]
                 ELSE IF \E i \in 1..Len(required) : required[i] \notin DOMAIN props
                 THEN [raised |-> "KeyError", found |-> found.tool, tool |-> NoneName, args |-> NoneArgs]
                 ELSE [raised |-> "", found |-> found.tool, tool |-> found.tool,
                       args |-> DictArgs(BindArgs(props, required, numbers))]

---------------------------------------------------------------------------
(* Catalogs: the inputSchema of each tool as FastMCP derives it from the   *)
(* signature (int: integer, float: number, str: string; a parameter with a *)
(* default is not required)                                                *)

Tool(props, required) == [properties |-> props, required |-> required]

BinaryInt == Tool([k \in {"a", "b"} |-> "integer"], <<"a", "b">>)

UnaryInt == Tool([k \in {"a"} |-> "integer"], <<"a">>)

UnaryNumber == Tool([k \in {"a"} |-> "number"], <<"a">>)

\* the tools server.py registers
ServerTools == {N_get_recent_calculations, N_ollama_chat, N_add, N_subtract, N_multiply,
                N_divide, N_power, N_sqrt, N_cosine, N_sine, N_tangent, N_acos, N_asin,
                N_get_weather_forecast}

Descriptor(n) ==
    IF n = N_get_recent_calculations THEN Tool([k \in {"n"} |-> "integer"], <<>>)
    ELSE IF n = N_ollama_chat THEN Tool([k \in {"prompt"} |-> "string"], <<"prompt">>)
    ELSE IF n \in {N_add, N_subtract, N_multiply, N_divide, N_power} THEN BinaryInt
    ELSE IF n \in {N_sqrt, N_cosine, N_sine, N_tangent} THEN UnaryInt
    ELSE IF n \in {N_acos, N_asin} THEN UnaryNumber
    ELSE IF n = N_get_weather_forecast THEN Tool([k \in {"city_name"} |-> "string"], <<"city_name">>)
    ELSE Tool([k \in {"location"} |-> "string"], <<"location">>)

Catalog(names) == [n \in names |-> Descriptor(n)]

\* The catalogs a session may discover: server.py's own; the same with a tool named
\* "weather", the name the intercept calls; and a server offering only a few tools.
Catalogs == {Catalog(ServerTools),
             Catalog(ServerTools \cup {N_weather}),
             Catalog({N_multiply, N_acos, N_ollama_chat, N_weather})}

---------------------------------------------------------------------------
(* The weather intercept of run() *)

W_weather == <<"w", "e", "a", "t", "h", "e", "r">>

W_forecast == <<"f", "o", "r", "e", "c", "a", "s", "t">>

W_temperature == <<"t", "e", "m", "p", "e", "r", "a", "t", "u", "r", "e">>

W_rain == <<"r", "a", "i", "n">>

W_snow == <<"s", "n", "o", "w">>

W_sunny == <<"s", "u", "n", "n", "y">>

WeatherTriggers == {W_weather, W_forecast, W_temperature, W_rain, W_snow, W_sunny}

\* any(k in user_input.lower() for k in [...])
HasWeatherTrigger(input) == \E k \in WeatherTriggers : Contains(k, Lower(input))

\* an intercept that does not look at the catalog (not the code's)
InterceptFiresWithoutCatalog(input, tm) == HasWeatherTrigger(input)

\* the condition of the if: a trigger word in the text and "weather" in tool_map
InterceptFires(input, tm) == HasWeatherTrigger(input) /\ N_weather \in DOMAIN tm

\* [a-zA-Z\s]
IsLocationChar(c) == c \in LowerLetters \/ c \in DOMAIN UpperToLower \/ IsSpace(c)

\* the first index from i on (Len(s) + 1 if none) whose character is not in [a-zA-Z\s]
RECURSIVE SkipLocation(_, _)
SkipLocation(s, i) == IF i > Len(s) \/ ~IsLocationChar(s[i]) THEN i ELSE SkipLocation(s, i + 1)

\* the length of (?:in|at|for) matched at index q, 0 if none of them is there
PrepositionAt(s, q) ==
    IF OccursAt(<<"i", "n">>, s, q) \/ OccursAt(<<"a", "t">>, s, q) THEN 2
    ELSE IF OccursAt(<<"f", "o", "r">>, s, q) THEN 3
    ELSE 0

\* \s*(?:in|at|for)?\s*([a-zA-Z\s]+) matched from index p on, as the backtracking
\* matcher does it: <<first, end>> of group 1 (end exclusive), <<0, 0>> if no match.
\* Each \s* takes all the whitespace and the preposition is taken when present; if the
\* group then finds no character, the whitespace before it gives back one character
\* to the group; if there is none to give, the preposition is left to the group.
LocationGroupAt(s, p) ==
    LET q == SkipSpaces(s, p)
        l == PrepositionAt(s, q)
        r == SkipSpaces(s, q + l)
    IN  IF l > 0 /\ SkipLocation(s, r) > r THEN <<r, SkipLocation(s, r)>>
        ELSE IF l > 0 /\ r > q + l THEN <<r - 1, r>>
        ELSE IF SkipLocation(s, q) > q THEN <<q, SkipLocation(s, q)>>
        ELSE IF q > p THEN <<q - 1, q>>
        ELSE <<0, 0>>

\* m = re.search(r"weather\s*(?:in|at|for)?\s*([a-zA-Z\s]+)", s): group 1 of the
\* leftmost match, or no match
LocationSearch(s) ==
    LET at == {i \in 1..Len(s) :
                  OccursAt(W_weather, s, i) /\ LocationGroupAt(s, i + Len(W_weather)) # <<0, 0>>}
    IN  IF at = {} THEN [matched |-> FALSE, group |-> <<>>]
        ELSE LET g == LocationGroupAt(s, Min(at) + Len(W_weather))
             IN  [matched |-> TRUE, group |-> SubSeq(s, g[1], g[2] - 1)]

DefaultLocation == <<"N", "a", "s", "h", "v", "i", "l", "l", "e">>

\* location as the intercept computes it
WeatherLocation(input) ==
    LET m == LocationSearch(Lower(input))
    IN  IF m.matched THEN Strip(m.group) ELSE DefaultLocation

\* args = {"location": location}
WeatherArgs(input) == DictArgs([k \in {"location"} |-> StrValue(WeatherLocation(input))])

---------------------------------------------------------------------------
(* The assisted resolver: ask_qwen_for_tool(prompt, tool_map) *)

\* What the POST to the collaborator can come back with.  kind says how far the
\* reply gets: the request fails or times out; the envelope is not JSON; the
\* envelope holds no (or only blank) message content; the content is not JSON;
\* the content is an object, whose "tool" is tool (NoneName when absent) and whose
\* "args" is args when has_args.
Reply(kind, tool, has_args, a) == [kind |-> kind, tool |-> tool, has_args |-> has_args, args |-> a]

\* no POST has returned in this turn
NoReply == Reply("none", NoneName, FALSE, NoneArgs)

FailureKinds == {"network_error", "timeout", "bad_envelope", "no_content", "not_json"}

N_unknown == <<"n", "o", "p", "e">>

CompleteAddArgs == DictArgs([k \in {"a", "b"} |-> IntValue(IF k = "a" THEN 5 ELSE 3)])

PartialAddArgs == DictArgs([k \in {"a"} |-> IntValue(5)])

Replies ==
    {Reply(k, NoneName, FALSE, NoneArgs) : k \in FailureKinds}
    \cup {Reply("object", NoneName, TRUE, EmptyDict), Reply("object", N_unknown, TRUE, EmptyDict)}
    \cup {Reply("object", N_add, FALSE, NoneArgs)}
    \cup {Reply("object", N_add, TRUE, a) :
            a \in {NoneArgs, PartialAddArgs, CompleteAddArgs, ListArgs}}

\* a resolver that does not check the tool against the catalog (not the code's)
AskQwenForToolUnvalidated(response, tm) ==
    IF response.kind \in {"network_error", "timeout", "bad_envelope"}
    THEN [tool |-> NoneName, args |-> NoneArgs, printed |-> {"Failed to call Qwen"}]
    ELSE IF response.kind = "no_content"
    THEN [tool |-> NoneName, args |-> NoneArgs, printed |-> {"Warning: Qwen returned empty response."}]
    ELSE IF response.kind = "not_json"
    THEN [tool |-> NoneName, args |-> NoneArgs, printed |-> {"Failed to parse JSON from Qwen output"}]
    ELSE [tool |-> response.tool, args |-> IF response.has_args THEN response.args ELSE EmptyDict,
          printed |-> {}]

\* what ask_qwen_for_tool returns, and what it prints on the way
AskQwenForTool(response, tm) ==
    IF response.kind \in {"network_error", "timeout", "bad_envelope"}
    THEN [tool |-> NoneName, args |-> NoneArgs, printed |-> {"Failed to call Qwen"}]
    ELSE IF response.kind = "no_content"
    THEN [tool |-> NoneName, args |-> NoneArgs, printed |-> {"Warning: Qwen returned empty response."}]
    ELSE IF response.kind = "not_json"
    THEN [tool |-> NoneName, args |-> NoneArgs, printed |-> {"Failed to parse JSON from Qwen output"}]
    ELSE IF response.tool \in DOMAIN tm
    THEN [tool |-> response.tool, args |-> IF response.has_args THEN response.args ELSE EmptyDict, printed |-> {}]
    ELSE [tool |-> NoneName, args |-> NoneArgs, printed |-> {}]

---------------------------------------------------------------------------
(* The lines a user may type *)

\* words of calculator commands
CalcVocabulary == {
    <<"A", "d", "d">>,
    <<"a", "c", "o", "s">>,
    <<"r", "e", "c", "e", "n", "t">>,
    <<"o", "l", "l", "a", "m", "a", "_", "c", "h", "a", "t">>,
    <<"5">>,
    <<"-", "2", ".", "7">>
}

\* words of weather questions
WeatherVocabulary == {
    <<"W", "e", "a", "t", "h", "e", "r">>,
    <<"r", "a", "i", "n">>,
    <<"i", "n">>,
    <<"p", "a", "r", "i", "s">>,
    <<"5">>
}

\* words of the loop's own commands
LoopVocabulary == {
    <<"Q", "u", "i", "t">>,
    <<"t", "o", "o", "l", "s">>
}

TokenLists(vocabulary) == UNION {[1..n -> vocabulary] : n \in 0..MaxTokens}

\* the tokens separated by single spaces
RECURSIVE Join(_)
Join(ts) ==
    IF ts = <<>> THEN <<>>
    ELSE IF Len(ts) = 1 THEN ts[1]
    ELSE ts[1] \o <<SP>> \o Join(Tail(ts))

\* the stripped lines made of the words of one vocabulary
Texts == {Join(ts) : ts \in TokenLists(CalcVocabulary) \cup TokenLists(WeatherVocabulary)
                           \cup TokenLists(LoopVocabulary)}

\* what input() returns: such a line, bare or with whitespace around it
Lines == Texts \cup {<<SP>> \o t \o <<SP>> : t \in Texts}

---------------------------------------------------------------------------
(* The read-line loop of run() *)

QuitWords == {<<"q", "u", "i", "t">>, <<"e", "x", "i", "t">>}

ListingWords == {<<"t", "o", "o", "l", "s">>,
                 <<"l", "i", "s", "t", " ", "t", "o", "o", "l", "s">>,
                 <<"w", "h", "a", "t", " ", "t", "o", "o", "l", "s", " ", "d", "o", " ", "y", "o", "u", " ", "h", "a", "v", "e">>,
                 <<"a", "v", "a", "i", "l", "a", "b", "l", "e", " ", "t", "o", "o", "l", "s">>,
                 <<"l", "i", "s", "t", " ", "a", "v", "a", "i", "l", "a", "b", "l", "e", " ", "t", "o", "o", "l", "s">>}

IsQuit(input) == Lower(input) \in QuitWords

IsListing(input) == Lower(Strip(input)) \in ListingWords

\* `not tool_name`: None and the empty string are falsy
Falsy(tn) == tn = NoneName \/ tn = <<>>

\* a dispatcher that always runs the keyword resolver (not the code's)
AlwaysFallsBack(tn, a) == TRUE

\* the condition under which run() falls back to parse_natural_language
NeedsFallback(tn, a) == Falsy(tn) \/ a = NoneArgs

\* the condition under which run() gives up on the line
GivesUp(tn, a) == Falsy(tn) \/ a = NoneArgs

\* an entry of steps: a strategy consulted on a text, and whether it returned a
\* tool name together with args
Step(name, input, tn, a) ==
    [name |-> name, input |-> input, resolved |-> ~Falsy(tn) /\ a # NoneArgs]

Init ==
    /\ tool_map \in Catalogs
    /\ pc = "input"
    /\ user_input = <<>>
    /\ tool_name = NoneName
    /\ args = NoneArgs
    /\ steps = <<>>
    /\ posts = 0
    /\ console = {}
    /\ called = <<>>
    /\ reply = NoReply
    /\ found_tool = NoneName
    /\ raised = ""

\* "quit" or "exit": the loop ends
Quit ==
    /\ pc = "input"
    /\ \E line \in Lines :
        /\ IsQuit(Strip(line))
        /\ user_input' = Strip(line)
    /\ console' = {"Bye!"}
    /\ pc' = "done"
    /\ UNCHANGED <<found_tool, tool_map, tool_name, args, steps, posts, called, raised, reply>>

\* a listing synonym: the catalog is printed and the loop continues
ListTools ==
    /\ pc = "input"
    /\ \E line \in Lines :
        /\ ~IsQuit(Strip(line))
        /\ IsListing(Strip(line))
        /\ user_input' = Strip(line)
    /\ console' = {"=== Available MCP Tools ==="}
    /\ pc' = "turn_end"
    /\ UNCHANGED <<found_tool, tool_map, tool_name, args, steps, posts, called, raised, reply>>

\* the weather branch: the intercept sets tool_name and args itself
WeatherIntercept ==
    /\ pc = "input"
    /\ \E line \in Lines :
        LET input == Strip(line)
        IN  /\ ~IsQuit(input)
            /\ ~IsListing(input)
            /\ InterceptFires(input, tool_map)
            /\ user_input' = input
            /\ tool_name' = N_weather
            /\ args' = WeatherArgs(input)
            /\ steps' = <<Step("intercept", input, N_weather, WeatherArgs(input))>>
    /\ console' = {"DEBUG: Calling weather tool with args"}
    /\ pc' = "check"
    /\ UNCHANGED <<found_tool, tool_map, posts, called, raised, reply>>

\* the else branch: ask_qwen_for_tool is called and POSTs to the collaborator
AskQwen ==
    /\ pc = "input"
    /\ \E line \in Lines :
        LET input == Strip(line)
        IN  /\ ~IsQuit(input)
            /\ ~IsListing(input)
            /\ ~InterceptFires(input, tool_map)
            /\ user_input' = input
    /\ posts' = posts + 1
    /\ pc' = "awaiting"
    /\ UNCHANGED <<found_tool, tool_map, tool_name, args, steps, console, called, raised, reply>>

\* the POST returns or fails, and ask_qwen_for_tool returns to run()
AssistedReply ==
    /\ pc = "awaiting"
    /\ \E response \in Replies :
        \E r \in {AskQwenForTool(response, tool_map)} :
            /\ reply' = response
            /\ tool_name' = r.tool
            /\ args' = r.args
            /\ console' = console \cup r.printed
            /\ steps' = Append(steps, Step("assisted", user_input, r.tool, r.args))
            /\ pc' = IF NeedsFallback(r.tool, r.args) THEN "fallback" ELSE "check"
    /\ UNCHANGED <<found_tool, tool_map, user_input, posts, called, raised>>

\* parse_natural_language is called on the same line; an exception it raises is
\* caught nowhere and ends run()
KeywordFallback ==
    /\ pc = "fallback"
    /\ \E r \in {ParseNaturalLanguage(user_input, tool_map)} :
           /\ tool_name' = r.tool
           /\ args' = r.args
           /\ steps' = Append(steps, Step("keyword", user_input, r.tool, r.args))
           /\ found_tool' = r.found
           /\ raised' = r.raised
           /\ pc' = IF r.raised # "" THEN "crashed" ELSE "check"
    /\ UNCHANGED <<tool_map, user_input, posts, console, called, reply>>

\* nothing resolved the line
NotUnderstood ==
    /\ pc = "check"
    /\ GivesUp(tool_name, args)
    /\ console' = console \cup {"Sorry, I couldn't understand that. Please try again."}
    /\ pc' = "turn_end"
    /\ UNCHANGED <<found_tool, tool_map, user_input, tool_name, args, steps, posts, called, raised, reply>>

\* the tool is called with the name and args as resolved; args that are no mapping
\* cannot be sent as arguments nor walked by args.items(), and the error ends run()
CallTool ==
    /\ pc = "check"
    /\ ~GivesUp(tool_name, args)
    /\ called' = <<[name |-> tool_name, args |-> args]>>
    /\ IF args.kind = "dict"
       THEN /\ console' = console \cup {"Calling tool", "=== Calculation Result ==="}
            /\ pc' = "turn_end"
            /\ raised' = raised
       ELSE /\ console' = console \cup {"Calling tool"}
            /\ pc' = "crashed"
            /\ raised' = "ArgumentsError"
    /\ UNCHANGED <<found_tool, tool_map, user_input, tool_name, args, steps, posts, reply>>

\* the loop goes round: the next iteration assigns every local before it reads it
NextCommand ==
    /\ pc = "turn_end"
    /\ pc' = "input"
    /\ user_input' = <<>>
    /\ tool_name' = NoneName
    /\ args' = NoneArgs
    /\ steps' = <<>>
    /\ posts' = 0
    /\ console' = {}
    /\ called' = <<>>
    /\ reply' = NoReply
    /\ found_tool' = NoneName
    /\ UNCHANGED <<tool_map, raised>>

Next ==
    \/ Quit
    \/ ListTools
    \/ WeatherIntercept
    \/ AskQwen
    \/ AssistedReply
    \/ KeywordFallback
    \/ NotUnderstood
    \/ CallTool
    \/ NextCommand

Spec == Init /\ [][Next]_vars

---------------------------------------------------------------------------
(* What the claims speak of *)

StepNames == [i \in 1..Len(steps) |-> steps[i].name]

Consulted(name) == \E i \in 1..Len(steps) : steps[i].name = name

SorryLine == "Sorry, I couldn't understand that. Please try again."

\* the line of this turn went past the quit and listing commands
Routed == pc \in {"awaiting", "fallback", "check", "turn_end", "crashed"} /\ ~IsListing(user_input)

\* parse_natural_language was called in this turn and returned
KeywordReturned == Len(steps) = 2 /\ steps[2].name = "keyword" /\ raised = ""

\* The words of the vocabularies that are numerals, with the value each denotes and
\* that value truncated toward zero: stated here, not computed by the model.
NumeralWords == {<<"5">>, <<"-", "2", ".", "7">>}

DenotedValue(w) == IF w = <<"5">> THEN [sign |-> 1, mant |-> 5, scale |-> 0]
                   ELSE [sign |-> -1, mant |-> 27, scale |-> 1]

DenotedTruncated(w) == IF w = <<"5">> THEN 5 ELSE -2

IsNumeralWord(w) == w \in NumeralWords

\* the numerals of a line in order of appearance: no other word holds a digit
NumeralsTyped(input) == SelectSeq(Split(input), IsNumeralWord)

\* some word of the line is a weather trigger word
MentionsWeather(input) ==
    \E ws \in {Split(Lower(input))} : \E i \in 1..Len(ws) : ws[i] \in WeatherTriggers

\* the line names a place: a word of letters right after the word "weather"
NamesLocation(input) ==
    \E ws \in {Split(Lower(input))} :
        \E i \in 1..(Len(ws) - 1) :
            ws[i] = W_weather /\ \A k \in 1..Len(ws[i + 1]) : ws[i + 1][k] \in LowerLetters

\* the table entries whose phrase occurs in the lowercased line
Occurring(input) ==
    UNION {{i \in 1..Len(keywords) : Contains(keywords[i].phrase, text)} : text \in {Lower(input)}}

RequiredOf(n) == {tool_map[n].required[i] : i \in 1..Len(tool_map[n].required)}

\* C1: in every turn the strategies run in the fixed order intercept, assisted,
\* keyword; the assisted resolver is consulted only when no intercept fired, the
\* keyword resolver only when the assisted resolver returned nothing in that turn,
\* "not understood" is printed only when every consulted strategy returned nothing,
\* and at most one POST is issued per turn.
C1_StrictGating ==
    /\ StepNames \in {<<>>, <<"intercept">>, <<"assisted">>, <<"assisted", "keyword">>}
    /\ posts <= 1
    /\ posts = Cardinality({i \in 1..Len(steps) : steps[i].name = "assisted"})
                 + (IF pc = "awaiting" THEN 1 ELSE 0)
    /\ (Consulted("keyword") => ~steps[1].resolved)
    /\ (SorryLine \in console => steps # <<>> /\ \A i \in 1..Len(steps) : ~steps[i].resolved)

\* a turn in which a failed POST was followed by the keyword resolver, which found
\* nothing either, and the line was reported as not understood
C1_Witness ==
    /\ pc = "turn_end"
    /\ StepNames = <<"assisted", "keyword">>
    /\ reply.kind = "timeout"
    /\ posts = 1
    /\ SorryLine \in console

\* C2: whatever the dispatcher calls names a tool of the catalog with args that are a
\* mapping holding every required parameter of that tool.
C2_DispatchedIsValid ==
    called # <<>> =>
        /\ called[1].name \in DOMAIN tool_map
        /\ called[1].args.kind = "dict"
        /\ RequiredOf(called[1].name) \subseteq DOMAIN called[1].args.map

C4_ResolutionNeverRaises ==
    /\ Consulted("keyword") => raised = ""
    /\ (pc = "turn_end" /\ steps # <<>> /\ \A i \in 1..Len(steps) : ~steps[i].resolved)
            => SorryLine \in console

\* the reply is one of the failures the assisted resolver answers with nothing
IsFailureReply(response) ==
    response.kind \in FailureKinds \/ (response.kind = "object" /\ response.tool \notin DOMAIN tool_map)

AssistedReturned == Len(steps) >= 1 /\ steps[1].name = "assisted"

\* after a failed reply nothing is resolved and nothing raised, and the keyword
\* resolver is run next, on the same line, in the same turn
FallsBackOnFailure ==
    /\ ~steps[1].resolved
    /\ steps[1].input = user_input
    /\ \/ pc = "fallback" /\ raised = ""
       \/ Len(steps) = 2 /\ steps[2].name = "keyword" /\ steps[2].input = steps[1].input

\* C5 as stated: a failed reply makes the assisted resolver return nothing without
\* raising, the keyword resolver runs on the same line in the same turn, and the
\* transport error is not shown to the user.
C5_FailureIsSilent ==
    (AssistedReturned /\ IsFailureReply(reply)) =>
        /\ FallsBackOnFailure
        /\ "Failed to call Qwen" \notin console

\* C5 amended: a failed reply makes the assisted resolver return nothing without
\* raising and the keyword resolver runs on the same line in the same turn; a failed
\* or timed out request, or an unreadable envelope, is printed as a "Failed to call
\* Qwen" line.
C5_FailureFallsBack ==
    (AssistedReturned /\ IsFailureReply(reply)) =>
        /\ FallsBackOnFailure
        /\ (reply.kind \in {"network_error", "timeout", "bad_envelope"}
                => "Failed to call Qwen" \in console)

\* a turn in which the request timed out and the keyword resolver resolved the line
C5_Witness ==
    /\ AssistedReturned
    /\ reply.kind = "timeout"
    /\ KeywordReturned
    /\ steps[2].resolved
    /\ pc = "turn_end"

\* C6 as stated: when phrases of two different tools occur in the line, the tool of
\* the earliest occurring table entry is selected.
C6_EarliestOccurringWins ==
    KeywordReturned =>
        \A occ \in {Occurring(user_input)} :
            (\E i, j \in occ : keywords[i].tool # keywords[j].tool) =>
                /\ found_tool = keywords[Min(occ)].tool
                /\ (steps[2].resolved => tool_name = keywords[Min(occ)].tool)

\* C6 amended: the tool selected is that of the earliest table entry among those
\* whose phrase occurs in the line and whose tool is in the catalog, wherever the
\* phrases stand in the line.
C6_EarliestInCatalogWins ==
    KeywordReturned =>
        \A hits \in {{i \in Occurring(user_input) : keywords[i].tool \in DOMAIN tool_map}} :
            hits # {} =>
                /\ found_tool = keywords[Min(hits)].tool
                /\ (steps[2].resolved => tool_name = keywords[Min(hits)].tool)

\* a line in which the phrase of a later entry stands before the phrase of an earlier
\* entry of another tool, resolved to the earlier entry's tool
C6_Witness ==
    /\ KeywordReturned
    /\ steps[2].resolved
    /\ \E i, j \in Occurring(user_input) :
        /\ i < j
        /\ keywords[i].tool # keywords[j].tool
        /\ {keywords[i].tool, keywords[j].tool} \subseteq DOMAIN tool_map
        /\ FirstOccurrence(keywords[j].phrase, Lower(user_input))
             < FirstOccurrence(keywords[i].phrase, Lower(user_input))
        /\ tool_name = keywords[i].tool

\* C7: once a tool is identified, the keyword resolver returns it exactly when the
\* line holds at least as many numerals as the tool has required parameters, and
\* then the keys of args are exactly the required parameters (none for a tool that
\* requires none); otherwise it returns nothing.
C7_AllOrNothing ==
    KeywordReturned =>
        IF found_tool = NoneName THEN ~steps[2].resolved
        ELSE /\ steps[2].resolved <=>
                    Len(NumeralsTyped(user_input)) >= Len(tool_map[found_tool].required)
             /\ steps[2].resolved =>
                    /\ tool_name = found_tool
                    /\ args.kind = "dict"
                    /\ DOMAIN args.map = RequiredOf(found_tool)
             /\ ~steps[2].resolved => tool_name = NoneName /\ args = NoneArgs

\* add, which requires two parameters, resolved from a line with two numerals
C7_Witness ==
    /\ KeywordReturned
    /\ steps[2].resolved
    /\ tool_name = N_add
    /\ Len(NumeralsTyped(user_input)) = 2
    /\ DOMAIN args.map = {"a", "b"}

\* the value the i-th required parameter must get from the numeral word w
ExpectedValue(declared, w) ==
    IF declared = "integer" THEN IntValue(DenotedTruncated(w))
    ELSE IF declared = "number" THEN FloatValue(DenotedValue(w))
    ELSE StrValue(w)

\* C8: the i-th required parameter gets the i-th numeral of the line: truncated
\* toward zero for an integer, its decimal value for a number, its text otherwise.
C8_PositionalBinding ==
    (KeywordReturned /\ steps[2].resolved) =>
        \A numerals \in {NumeralsTyped(user_input)} :
            \A i \in 1..Len(tool_map[tool_name].required) :
                args.map[tool_map[tool_name].required[i]]
                    = ExpectedValue(tool_map[tool_name].properties[tool_map[tool_name].required[i]],
                                    numerals[i])

\* "add 5 -2.7": a gets 5 and b gets -2
C8_Witness ==
    /\ KeywordReturned
    /\ tool_name = N_add
    /\ args.kind = "dict"
    /\ DOMAIN args.map = {"a", "b"}
    /\ args.map["a"] = IntValue(5)
    /\ args.map["b"] = IntValue(-2)

\* C9: when the intercept fires, the location is never empty, and it is "Nashville"
\* when the line names no place; neither resolver is consulted.
C9_DefaultLocation ==
    Consulted("intercept") =>
        /\ args.map["location"].text # <<>>
        /\ (~NamesLocation(user_input) => args.map["location"].text = DefaultLocation)
        /\ posts = 0
        /\ StepNames = <<"intercept">>

\* C10: a line whose first word is the name of a tool of the catalog, with at least
\* as many numerals as the tool requires, is resolved to that tool.
C10_NameResolvesToItself ==
    (KeywordReturned /\ Split(user_input) # <<>>) =>
        LET first == Split(user_input)[1]
        IN  (first \in DOMAIN tool_map
                /\ Len(NumeralsTyped(user_input)) >= Len(tool_map[first].required))
            => steps[2].resolved /\ tool_name = first

====
